---- MODULE Spec2Model ----
(***************************************************************************)
(* A model of package snowflake (kankanreno/go-snowflake): the generator   *)
(* NextID/ID, its configuration setters, the identifier codec and the      *)
(* default sequence resolver.                                              *)
(*                                                                         *)
(* Times are integers counting milliseconds.  The bit widths of the three  *)
(* identifier fields are scaled down (the source has 41/6/6, which does    *)
(* not fit the model checker's integers); every derived constant and every *)
(* shift is computed from the widths exactly as the source computes it.    *)
(*                                                                         *)
(* AtomicResolver is exported by the package but its file is not among the *)
(* sources at hand (only its test and its callers are): it is modelled     *)
(* from the specification's section 4.3.                                   *)
(***************************************************************************)
EXTENDS Integers, Sequences, FiniteSets, TLC

\* ------------------------------------------------------------------ bounds

\* Scaled bit widths of the identifier's fields (source: 41, 6, 6).
TimestampLength == 2
MachineIDLength == 2
SequenceLength == 2

\* Scaled default start time (source: 2020-01-01 00:00:00 UTC, in ms).
DefaultStartMillis == 1

\* The clock reads 0..MaxClock.
MaxClock == 5

\* At most MaxCalls invocations of NextID/ID.
MaxCalls == 4

\* Where the setters are called too: at most MaxOps calls, of NextID/ID and of
\* the setters together.
MaxOps == 3

\* Where the default resolver is called directly: at most MaxResolverCalls
\* calls.
MaxResolverCalls == 5

\* Where calls go on for ever: the clock is kept modulo ClockWindow, and a call
\* never holds a clock value ClockWindow ticks old.
ClockWindow == 3

\* ------------------------------------------------------------- arithmetic

RECURSIVE Pow2(_)
Pow2(n) == IF n = 0 THEN 1 ELSE 2 * Pow2(n - 1)

\* Go's x << n and x >> n on non-negative integers (no overflow at these widths).
ShiftLeft(x, n) == x * Pow2(n)
ShiftRight(x, n) == x \div Pow2(n)

\* Go's x | y and x & y on non-negative integers, bit by bit.
RECURSIVE BitOr(_, _)
BitOr(x, y) ==
    IF x = 0 THEN y
    ELSE IF y = 0 THEN x
    ELSE (IF x % 2 = 1 \/ y % 2 = 1 THEN 1 ELSE 0) + 2 * BitOr(x \div 2, y \div 2)

RECURSIVE BitAnd(_, _)
BitAnd(x, y) ==
    IF x = 0 \/ y = 0 THEN 0
    ELSE (IF x % 2 = 1 /\ y % 2 = 1 THEN 1 ELSE 0) + 2 * BitAnd(x \div 2, y \div 2)

\* -------------------------------------------------------------- constants

MaxTimestamp == ShiftLeft(1, TimestampLength) - 1
MaxMachineID == ShiftLeft(1, MachineIDLength) - 1
MaxSequence == ShiftLeft(1, SequenceLength) - 1
machineIDMoveLength == SequenceLength
timestampMoveLength == MachineIDLength + SequenceLength

\* ------------------------------------------------------------------ state

Workers == {"w1", "w2"}

Nil == "nil"
ErrEpoch == "The maximum life cycle of the snowflake algorithm is 2^41(millis), please check starttime"
ErrCustom == "custom resolver error"

\* No time unit observed yet (fresh resolver state; outside the clock's range).
NoTime == 0 - 1

\* time.Time{}: long before any clock reading.
ZeroTime == 0 - (MaxClock + MaxTimestamp + 2)

VARIABLES
    now,        \* the clock source, in ms (time.Now)
    startTime,  \* package variable startTime, in ms
    machineID,  \* package variable machineID
    resolver,   \* package variable resolver: "nil", "AtomicResolver" or "custom"
    lastTime,   \* the default resolver's lastTimeUnit
    lastSeq,    \* the default resolver's counter
    pc,         \* each worker's position in NextID
    c,          \* NextID's local c
    seq,        \* NextID's local seq
    sr,         \* NextID's local seqResolver
    hist,       \* what each worker's running call has done so far (history)
    log,        \* the calls that returned, in order of return (history)
    calls,      \* invocations so far
    cpc,        \* the configuring thread's position in SetStartTime
    cs,         \* SetStartTime's argument s
    lastSet,    \* the last setter call (history)
    nconfig,    \* setter calls so far
    enc,        \* the fields last assembled into an identifier, and the identifier
    sid,        \* the SID that ParseID last returned
    rlog        \* the direct calls of AtomicResolver, in order (history)

gen == <<pc, c, seq, sr, hist, log, calls>>
res == <<lastTime, lastSeq>>
conf == <<startTime, machineID, resolver>>
setter == <<cpc, cs, lastSet, nconfig>>
direct == <<enc, sid, rlog>>
vars == <<now, startTime, machineID, resolver, lastTime, lastSeq, pc, c, seq,
          sr, hist, log, calls, cpc, cs, lastSet, nconfig, enc, sid, rlog>>

\* A setter call: the setter, its argument, and whether it panicked.
SetRecord(op, arg, panic) == [op |-> op, arg |-> arg, panic |-> panic]

NoSet == SetRecord("none", 0, FALSE)

\* A call's history: inv, the number of calls that had returned when it began;
\* exh, the time unit it last found exhausted; rerr, the error a resolver call
\* of it returned; late, whether it called the resolver again after that error.
NoHist == [inv |-> 0, exh |-> NoTime, rerr |-> Nil, late |-> FALSE]

\* Nothing assembled yet, nothing parsed yet.
NoEnc == [df |-> 0, mid |-> 0, seq |-> 0, id |-> 0 - 1]
NoSID == [ID |-> 0 - 1, Sequence |-> 0, MachineID |-> 0, Timestamp |-> 0]

Init ==
    /\ now = 0
    /\ startTime = DefaultStartMillis
    /\ machineID = 0
    /\ resolver = Nil
    /\ lastTime = NoTime
    /\ lastSeq = 0
    /\ pc = [w \in Workers |-> "idle"]
    /\ c = [w \in Workers |-> 0]
    /\ seq = [w \in Workers |-> 0]
    /\ sr = [w \in Workers |-> Nil]
    /\ hist = [w \in Workers |-> NoHist]
    /\ log = <<>>
    /\ calls = 0
    /\ cpc = "idle"
    /\ cs = 0
    /\ lastSet = NoSet
    /\ nconfig = 0
    /\ enc = NoEnc
    /\ sid = NoSID
    /\ rlog = <<>>

\* ------------------------------------------------------------ the clock

\* time.Now().UTC().UnixNano() / 1e6
currentMillis == now

\* The clock advances (it never moves backward here).
Tick ==
    /\ now < MaxClock
    /\ now' = now + 1
    /\ UNCHANGED <<conf, res, gen, setter, direct>>

\* ------------------------------------------------------------ helpers

\* A slip in elapsedTime: the subtraction the wrong way round.
elapsedTimeSwapped(nowms, s) == s - nowms

elapsedTime(nowms, s) == nowms - s

callSequenceResolver == IF resolver = Nil THEN "AtomicResolver" ELSE resolver

\* Slips in the default resolver: the counter is not incremented; the counter
\* is not reset for a new time unit.
AtomicResolverSeqNoIncrement(ms) == IF ms = lastTime THEN lastSeq ELSE 0
AtomicResolverSeqNoReset(ms) == IF ms = lastTime THEN lastSeq + 1 ELSE lastSeq

\* The default resolver, from (lastTimeUnit, counter): the sequence it returns
\* for time unit ms.
AtomicResolverSeq(ms) == IF ms = lastTime THEN lastSeq + 1 ELSE 0

\* What a custom resolver may return: any sequence, with or without an error.
CustomOutputs ==
    {[seq |-> s, err |-> Nil] : s \in {0, MaxSequence - 1, MaxSequence, MaxSequence + 1}}
        \cup {[seq |-> s, err |-> ErrCustom] : s \in {0, MaxSequence}}

\* A slip in the epoch check: the last representable elapsed time is refused.
EpochOutOfRangeOffByOne(df) == df < 0 \/ df >= MaxTimestamp

\* NextID's epoch check.
EpochOutOfRange(df) == df < 0 \/ df > MaxTimestamp

\* A slip in the assembly: the machine ID is shifted one bit short.
AssembleShortShift(df, mid, sq) ==
    BitOr(BitOr(ShiftLeft(df, timestampMoveLength), ShiftLeft(mid, machineIDMoveLength - 1)), sq)

\* NextID's assembly of the identifier.
Assemble(df, mid, sq) ==
    BitOr(BitOr(ShiftLeft(df, timestampMoveLength), ShiftLeft(mid, machineIDMoveLength)), sq)

\* A slip after the resolver call: its error is not looked at.
AfterResolveIgnoresError(sq, err) ==
    IF sq >= MaxSequence THEN "wait" ELSE "l71"

\* A slip in the loop's test: the maximum itself passes for a usable sequence.
AfterResolveOffByOne(sq, err) ==
    IF err # Nil THEN "return"
    ELSE IF sq > MaxSequence THEN "wait"
    ELSE "l71"

\* Where NextID goes after a resolver call: back to the caller on an error,
\* into waitForNextMillis while the sequence is exhausted, on to the epoch check.
AfterResolve(sq, err) ==
    IF err # Nil THEN "return"
    ELSE IF sq >= MaxSequence THEN "wait"
    ELSE "l71"

\* NextID's result at lines 71-77, from c, seq and the configuration it reads.
Identifier(cc, sq, start, mid) ==
    IF EpochOutOfRange(elapsedTime(cc, start))
    THEN [id |-> 0, err |-> ErrEpoch]
    ELSE [id |-> Assemble(elapsedTime(cc, start), mid, sq), err |-> Nil]

\* A slip in ParseID: the machine ID's mask is not moved up to its bits.
ParseIDUnshiftedMask(id) ==
    [ID |-> id,
     Sequence |-> BitAnd(id, MaxSequence),
     MachineID |-> ShiftRight(BitAnd(id, MaxMachineID), SequenceLength),
     Timestamp |-> ShiftRight(id, SequenceLength + MachineIDLength)]

\* A slip in GenerateTime: the whole identifier is added to the start time.
GenerateTimeOfID(id) == startTime + id.ID

\* GenerateTime(id), in milliseconds: the start time in effect when it is called,
\* moved on by the identifier's timestamp.
GenerateTime(id) == startTime + id.Timestamp

\* ParseID(id)
ParseID(id) ==
    [ID |-> id,
     Sequence |-> BitAnd(id, MaxSequence),
     MachineID |-> ShiftRight(BitAnd(id, ShiftLeft(MaxMachineID, SequenceLength)), SequenceLength),
     Timestamp |-> ShiftRight(id, SequenceLength + MachineIDLength)]

\* A slip in ID(): the zero value is returned whatever NextID returned.
IDResultAlwaysZero(id, err) == 0

\* ID(): NextID's identifier, the error dropped.
IDResult(id, err) == id

\* The call of worker w returns (id, err); epoch tells whether it came to line 71.
Return(w, id, err, h, epoch) ==
    /\ log' = Append(log, [w |-> w, id |-> id, err |-> err, out |-> IDResult(id, err),
                           c |-> c[w], seq |-> seq[w], start |-> startTime,
                           mid |-> machineID, epoch |-> epoch, inv |-> h.inv,
                           exh |-> h.exh, rerr |-> h.rerr, late |-> h.late])
    /\ pc' = [pc EXCEPT ![w] = "idle"]
    /\ c' = [c EXCEPT ![w] = 0]
    /\ seq' = [seq EXCEPT ![w] = 0]
    /\ sr' = [sr EXCEPT ![w] = Nil]
    /\ hist' = [hist EXCEPT ![w] = NoHist]

\* ------------------------------------------------------------ NextID

\* A worker calls NextID (directly or through ID) and runs lines 55-56:
\* c := currentMillis(); seqResolver := callSequenceResolver().  The call counts
\* as invoked when it samples the clock, the latest moment it can have been
\* invoked: every call that returned before then returned before the invocation.
Begin(w) ==
    /\ pc[w] = "idle"
    /\ calls < MaxCalls
    /\ calls' = calls + 1
    /\ c' = [c EXCEPT ![w] = currentMillis]
    /\ sr' = [sr EXCEPT ![w] = callSequenceResolver]
    /\ hist' = [hist EXCEPT ![w].inv = Len(log)]
    /\ pc' = [pc EXCEPT ![w] = "l57"]
    /\ UNCHANGED <<direct, now, conf, res, setter, seq, log>>

\* What follows seq, err := seqResolver(c), at line 57 and at line 65.
Resolved(w, sq, err) ==
    LET h == [hist[w] EXCEPT !.rerr = IF @ = Nil THEN err ELSE @,
                             !.late = hist[w].rerr # Nil,
                             !.exh = IF err = Nil /\ sq >= MaxSequence THEN c[w] ELSE @]
        to == AfterResolve(sq, err)
    IN  IF to = "return"
        THEN /\ Return(w, 0, err, h, FALSE)
             /\ UNCHANGED calls
        ELSE /\ seq' = [seq EXCEPT ![w] = sq]
             /\ hist' = [hist EXCEPT ![w] = h]
             /\ pc' = [pc EXCEPT ![w] = to]
             /\ UNCHANGED <<c, sr, log, calls>>

\* seq, err := seqResolver(c) with the default resolver: one atomic step.
ResolveAtomic(w) ==
    /\ pc[w] \in {"l57", "l65"}
    /\ sr[w] = "AtomicResolver"
    /\ lastSeq' = AtomicResolverSeq(c[w])
    /\ lastTime' = c[w]
    /\ Resolved(w, AtomicResolverSeq(c[w]), Nil)
    /\ UNCHANGED <<direct, now, conf, setter>>

\* seq, err := seqResolver(c) with a custom resolver.
ResolveCustom(w) ==
    /\ pc[w] \in {"l57", "l65"}
    /\ sr[w] = "custom"
    /\ \E o \in CustomOutputs : Resolved(w, o.seq, o.err)
    /\ UNCHANGED <<direct, now, conf, res, setter>>

\* A slip in waitForNextMillis: the loop test the wrong way round, so that it
\* spins until the clock reads the same value.
WaitForNextMillisInverted(w) ==
    /\ pc[w] = "wait"
    /\ currentMillis = c[w]
    /\ c' = [c EXCEPT ![w] = currentMillis]
    /\ pc' = [pc EXCEPT ![w] = "l65"]
    /\ UNCHANGED <<direct, now, conf, res, setter, seq, sr, hist, log, calls>>

\* c = waitForNextMillis(c): spins until the clock reads another value.
WaitForNextMillis(w) ==
    /\ pc[w] = "wait"
    /\ currentMillis # c[w]
    /\ c' = [c EXCEPT ![w] = currentMillis]
    /\ pc' = [pc EXCEPT ![w] = "l65"]
    /\ UNCHANGED <<direct, now, conf, res, setter, seq, sr, hist, log, calls>>

\* A slip in lines 71-74: a call that fails the epoch check undoes what its
\* resolver call did.
FinishRollsBack(w) ==
    /\ pc[w] = "l71"
    /\ LET r == Identifier(c[w], seq[w], startTime, machineID)
       IN  /\ Return(w, r.id, r.err, hist[w], TRUE)
           /\ IF r.err = Nil
              THEN UNCHANGED res
              ELSE lastTime' = NoTime /\ lastSeq' = 0
    /\ UNCHANGED <<direct, now, conf, setter, calls>>

\* Lines 71-77: the epoch check and the identifier, from startTime and machineID
\* as they are now.
Finish(w) ==
    /\ pc[w] = "l71"
    /\ LET r == Identifier(c[w], seq[w], startTime, machineID)
       IN  Return(w, r.id, r.err, hist[w], TRUE)
    /\ UNCHANGED <<direct, now, conf, res, setter, calls>>

\* The steps of a call that has begun.
Continue(w) ==
    \/ ResolveAtomic(w)
    \/ ResolveCustom(w)
    \/ WaitForNextMillis(w)
    \/ Finish(w)

\* ------------------------------------------------------------ setters

\* A slip in SetMachineID's check: MaxMachineID + 1 is let through.
SetMachineIDOffByOne(m) ==
    /\ cpc = "idle"
    /\ calls + nconfig < MaxOps
    /\ nconfig' = nconfig + 1
    /\ IF m > MaxMachineID + 1
       THEN /\ lastSet' = SetRecord("SetMachineID", m, TRUE)
            /\ UNCHANGED machineID
       ELSE /\ lastSet' = SetRecord("SetMachineID", m, FALSE)
            /\ machineID' = m
    /\ UNCHANGED <<direct, now, startTime, resolver, res, gen, cpc, cs>>

\* SetMachineID(m), m a uint16; a panic leaves the package variables as they were.
SetMachineID(m) ==
    /\ cpc = "idle"
    /\ calls + nconfig < MaxOps
    /\ nconfig' = nconfig + 1
    /\ IF m > MaxMachineID
       THEN /\ lastSet' = SetRecord("SetMachineID", m, TRUE)
            /\ UNCHANGED machineID
       ELSE /\ lastSet' = SetRecord("SetMachineID", m, FALSE)
            /\ machineID' = m
    /\ UNCHANGED <<direct, now, startTime, resolver, res, gen, cpc, cs>>

\* A slip in SetSequenceResolver: nil is stored like any resolver.
SetSequenceResolverStoresNil(r) ==
    /\ cpc = "idle"
    /\ calls + nconfig < MaxOps
    /\ nconfig' = nconfig + 1
    /\ lastSet' = SetRecord("SetSequenceResolver", r, FALSE)
    /\ resolver' = r
    /\ UNCHANGED <<direct, now, startTime, machineID, res, gen, cpc, cs>>

\* SetSequenceResolver(r): r is nil, AtomicResolver or a custom function.
SetSequenceResolver(r) ==
    /\ cpc = "idle"
    /\ calls + nconfig < MaxOps
    /\ nconfig' = nconfig + 1
    /\ lastSet' = SetRecord("SetSequenceResolver", r, FALSE)
    /\ resolver' = IF r # Nil THEN r ELSE resolver
    /\ UNCHANGED <<direct, now, startTime, machineID, res, gen, cpc, cs>>

\* s.IsZero()
IsZero(s) == s = ZeroTime

\* A slip in the comparison: a start time equal to the clock counts as after it.
AfterOrEqual(s, t) == s >= t

\* s.After(time.Now().UTC())
After(s, t) == s > t

\* SetStartTime(s), lines 90-98: the zero check and the check against the clock.
SetStartTimeBegin(s) ==
    /\ cpc = "idle"
    /\ calls + nconfig < MaxOps
    /\ nconfig' = nconfig + 1
    /\ IF IsZero(s) \/ After(s, now)
       THEN /\ lastSet' = SetRecord("SetStartTime", s, TRUE)
            /\ UNCHANGED <<cpc, cs>>
       ELSE /\ cpc' = "l101"
            /\ cs' = s
            /\ lastSet' = SetRecord("SetStartTime:running", s, FALSE)
    /\ UNCHANGED <<direct, now, conf, res, gen>>

\* SetStartTime(s), lines 101-106: the clock is read again for the life-cycle check.
SetStartTimeEnd ==
    /\ cpc = "l101"
    /\ cpc' = "idle"
    /\ cs' = 0
    /\ IF elapsedTime(currentMillis, cs) > MaxTimestamp
       THEN /\ lastSet' = SetRecord("SetStartTime", cs, TRUE)
            /\ UNCHANGED startTime
       ELSE /\ lastSet' = SetRecord("SetStartTime", cs, FALSE)
            /\ startTime' = cs
    /\ UNCHANGED <<direct, now, machineID, resolver, res, gen, nconfig>>

\* The arguments the setters are called with.
MachineIDInputs == {0, 1, MaxMachineID, MaxMachineID + 1}
ResolverInputs == {Nil, "AtomicResolver", "custom"}
StartTimeInputs == {ZeroTime} \cup (0..(DefaultStartMillis + 1))

Configure ==
    \/ \E m \in MachineIDInputs : SetMachineID(m)
    \/ \E r \in ResolverInputs : SetSequenceResolver(r)
    \/ \E s \in StartTimeInputs : SetStartTimeBegin(s)
    \/ SetStartTimeEnd

\* ------------------------------------------------------- specifications

\* The whole package used from one thread, as the setters ask ("thread-unsafe,
\* recommended you call him in the main function"): the thread calls the setters
\* and NextID/ID in any order, one call at a time, while the clock runs.
Caller == CHOOSE w \in Workers : TRUE

Next ==
    \/ Tick
    \/ (cpc = "idle" /\ calls + nconfig < MaxOps /\ Begin(Caller))
    \/ Continue(Caller)
    \/ (pc[Caller] = "idle" /\ Configure)

Spec == Init /\ [][Next]_vars

\* Generation under the configuration the package starts with (default start
\* time, machine ID 0, default resolver): no setter is called.
GenerateDefault(w) ==
    \/ Begin(w)
    \/ ResolveAtomic(w)
    \/ WaitForNextMillis(w)
    \/ Finish(w)

NextGen ==
    \/ Tick
    \/ \E w \in Workers : GenerateDefault(w)

SpecGen == Init /\ [][NextGen]_vars

\* The sequential use of NextID: one caller, the configuration the package
\* starts with.
NextOne ==
    \/ Tick
    \/ GenerateDefault(Caller)

SpecOne == Init /\ [][NextOne]_vars

\* The codec alone.  Line 76 assembles an identifier from fields within their
\* widths; ParseID takes it apart.
Encode(df, mid, sq) ==
    /\ enc' = [df |-> df, mid |-> mid, seq |-> sq, id |-> Assemble(df, mid, sq)]
    /\ sid' = NoSID
    /\ UNCHANGED <<now, conf, res, gen, setter, rlog>>

Decode ==
    /\ enc # NoEnc
    /\ sid' = ParseID(enc.id)
    /\ UNCHANGED <<now, conf, res, gen, setter, enc, rlog>>

NextCodec ==
    \/ \E df \in 0..MaxTimestamp, mid \in 0..MaxMachineID, sq \in 0..MaxSequence :
           Encode(df, mid, sq)
    \/ Decode

SpecCodec == Init /\ [][NextCodec]_vars

\* Calls without end: any number of calls by every worker, under the
\* configuration the package starts with, nothing recorded.  To keep the state
\* finite the clock is kept modulo ClockWindow.  A tick waits while a running
\* call still holds the clock value that the new one would be taken for, and it
\* clears a resolver time unit that old, which no later call can carry; so
\* equal values in the model are equal clock readings.
TickLive ==
    LET next == (now + 1) % ClockWindow
    IN  /\ \A w \in Workers : pc[w] # "idle" => c[w] # next
        /\ now' = next
        /\ IF lastTime = next
           THEN lastTime' = NoTime /\ lastSeq' = 0
           ELSE UNCHANGED res
        /\ UNCHANGED <<conf, gen, setter, direct>>

\* Lines 55-56.
BeginLive(w) ==
    /\ pc[w] = "idle"
    /\ c' = [c EXCEPT ![w] = currentMillis]
    /\ sr' = [sr EXCEPT ![w] = callSequenceResolver]
    /\ pc' = [pc EXCEPT ![w] = "l57"]
    /\ UNCHANGED <<direct, now, conf, res, setter, seq, hist, log, calls>>

\* Lines 71-77: the call returns, an identifier or the epoch error.
FinishLive(w) ==
    /\ pc[w] = "l71"
    /\ pc' = [pc EXCEPT ![w] = "idle"]
    /\ c' = [c EXCEPT ![w] = 0]
    /\ seq' = [seq EXCEPT ![w] = 0]
    /\ sr' = [sr EXCEPT ![w] = Nil]
    /\ hist' = [hist EXCEPT ![w] = NoHist]
    /\ UNCHANGED <<direct, now, conf, res, setter, log, calls>>

\* The steps of a call that has begun.
ContinueLive(w) == ResolveAtomic(w) \/ WaitForNextMillis(w) \/ FinishLive(w)

NextLive == TickLive \/ \E w \in Workers : BeginLive(w) \/ ContinueLive(w)

\* The clock keeps advancing and every call that has begun keeps being
\* scheduled.
SpecLive ==
    /\ Init
    /\ [][NextLive]_vars
    /\ WF_vars(TickLive)
    /\ \A w \in Workers : WF_vars(ContinueLive(w))

\* The default resolver alone, called directly with any time units in any
\* order: the calls of concurrent callers, each one atomic step, in the order
\* they take effect.
AtomicResolver(ms) ==
    /\ Len(rlog) < MaxResolverCalls
    /\ lastSeq' = AtomicResolverSeq(ms)
    /\ lastTime' = ms
    /\ rlog' = Append(rlog, [ms |-> ms, seq |-> AtomicResolverSeq(ms),
                             last |-> lastTime, cnt |-> lastSeq])
    /\ UNCHANGED <<now, conf, gen, setter, enc, sid>>

NextRes == \E ms \in 0..MaxClock : AtomicResolver(ms)

SpecRes == Init /\ [][NextRes]_vars

\* ------------------------------------------------------------ properties

\* The calls that returned an identifier.
Issued == {i \in DOMAIN log : log[i].err = Nil}

\* Call i returned before call j was invoked.
Before(i, j) == i <= log[j].inv

\* C1: with one generator (the configuration the package starts with, the
\* default resolver) and a clock that never moves backward, the identifiers
\* that concurrent workers obtain are pairwise distinct, in every interleaving
\* of their clock-sampling and resolver steps.
C1_NoDuplicates ==
    \A i, j \in Issued : i # j => log[i].id # log[j].id

\* C3: of two successful calls on one generator, the first returned before the
\* second was invoked, the second's identifier is not smaller than the first's,
\* also when other callers run NextID concurrently.
C3_NonDecreasing ==
    \A i, j \in Issued : Before(i, j) => log[j].id >= log[i].id

\* C4: a call whose resolver returned a sequence >= MaxSequence for time unit c
\* issues no identifier for c: it waits for another clock value and resolves
\* again, the identifier it returns carries the sequence the resolver gave for
\* the final time unit (below MaxSequence, not wrapped), and its timestamp field
\* is strictly greater than that of the exhausted time unit, of every identifier
\* issued for that time unit, and of the identifier the caller obtained before.
C4_ExhaustionAdvances ==
    \A j \in Issued :
        log[j].exh # NoTime =>
            /\ log[j].c > log[j].exh
            /\ ParseID(log[j].id).Sequence = log[j].seq
            /\ log[j].seq < MaxSequence
            /\ ParseID(log[j].id).Timestamp > elapsedTime(log[j].exh, log[j].start)
            /\ \A i \in Issued :
                   (i < j /\ (log[i].w = log[j].w \/ log[i].c = log[j].exh))
                       => ParseID(log[j].id).Timestamp > ParseID(log[i].id).Timestamp

\* C4's case: a call that found a time unit exhausted returned an identifier,
\* after the same caller had obtained one for the exhausted time unit.
C4_Witness ==
    \E j \in Issued :
        /\ log[j].exh # NoTime
        /\ \E i \in Issued : i < j /\ log[i].w = log[j].w /\ log[i].c = log[j].exh

\* C2: the machine field of every issued identifier is the machine ID it was
\* issued under, a value in 0..MaxMachineID, and overlaps neither the timestamp
\* nor the sequence bits; so identifiers issued under different machine IDs and
\* the same start time differ, whatever their clocks and sequences are.
C2_MachineField ==
    /\ \A i \in Issued :
           /\ log[i].mid \in 0..MaxMachineID
           /\ ParseID(log[i].id).MachineID = log[i].mid
           /\ ParseID(log[i].id).Timestamp = elapsedTime(log[i].c, log[i].start)
           /\ ParseID(log[i].id).Sequence = log[i].seq
    /\ \A i, j \in Issued :
           (log[i].mid # log[j].mid /\ log[i].start = log[j].start)
               => log[i].id # log[j].id

\* C2's case: two identifiers issued under different machine IDs and the same
\* start time, for the same time unit.
C2_Witness ==
    \E i, j \in Issued :
        /\ log[i].mid # log[j].mid
        /\ log[i].start = log[j].start
        /\ log[i].c = log[j].c

\* C5: a call whose resolver calls returned no error fails with the epoch error
\* and identifier 0 exactly when c - startTime is below 0 or above MaxTimestamp,
\* c being the clock value last given to the resolver; for every elapsed time
\* in 0..MaxTimestamp it returns an identifier carrying that elapsed time.
C5_EpochError ==
    \A i \in DOMAIN log :
        LET df == elapsedTime(log[i].c, log[i].start)
        IN  /\ log[i].err = ErrEpoch => (log[i].id = 0 /\ log[i].epoch /\ log[i].rerr = Nil)
            /\ log[i].rerr = Nil =>
                   /\ log[i].epoch
                   /\ log[i].err = ErrEpoch <=> (df < 0 \/ df > MaxTimestamp)
                   /\ df \in 0..MaxTimestamp =>
                          (log[i].err = Nil /\ ParseID(log[i].id).Timestamp = df)

\* C5's case: a call failed before the start time, a call succeeded at an
\* elapsed time of exactly MaxTimestamp, and a call failed beyond it.
C5_Witness ==
    /\ \E i \in DOMAIN log :
           log[i].err = ErrEpoch /\ elapsedTime(log[i].c, log[i].start) < 0
    /\ \E i \in DOMAIN log :
           log[i].err = Nil /\ elapsedTime(log[i].c, log[i].start) = MaxTimestamp
    /\ \E i \in DOMAIN log :
           log[i].err = ErrEpoch /\ elapsedTime(log[i].c, log[i].start) > MaxTimestamp

\* C6: a call one of whose resolver calls returned an error returns that error
\* with identifier 0, without calling the resolver again and without coming to
\* the epoch check; and no other error than the epoch error comes from elsewhere.
C6_ResolverError ==
    \A i \in DOMAIN log :
        /\ log[i].rerr # Nil =>
               /\ log[i].err = log[i].rerr
               /\ log[i].id = 0
               /\ ~log[i].late
               /\ ~log[i].epoch
        /\ log[i].err \notin {Nil, ErrEpoch} => log[i].err = log[i].rerr

\* C6's case: the resolver failed on the first resolution of one call and on a
\* re-resolution, after an exhausted time unit, of another.
C6_Witness ==
    /\ \E i \in DOMAIN log : log[i].rerr = ErrCustom /\ log[i].exh = NoTime
    /\ \E i \in DOMAIN log : log[i].rerr = ErrCustom /\ log[i].exh # NoTime

\* C7: ID() returns NextID's identifier when NextID succeeds and 0 when NextID
\* fails, with a resolver's error or with the epoch error.
C7_IDNeverFails ==
    \A i \in DOMAIN log :
        log[i].out = IF log[i].err = Nil THEN log[i].id ELSE 0

\* C7's case: ID() returned a non-zero identifier for one call and 0 for a call
\* that failed with a resolver's error.
C7_Witness ==
    /\ \E i \in DOMAIN log : log[i].err = Nil /\ log[i].out > 0
    /\ \E i \in DOMAIN log : log[i].err = ErrCustom /\ log[i].out = 0

\* A setter call has just been made.
SetterCalled(op) == nconfig' # nconfig /\ lastSet'.op = op

\* C8: SetMachineID(m) panics exactly when m > MaxMachineID and then leaves the
\* machine ID as it was; otherwise the machine ID becomes m; the machine ID is
\* always within 0..MaxMachineID.
C8_SetMachineID ==
    /\ [](machineID \in 0..MaxMachineID)
    /\ [][SetterCalled("SetMachineID") =>
              /\ lastSet'.panic <=> lastSet'.arg > MaxMachineID
              /\ machineID' = IF lastSet'.panic THEN machineID ELSE lastSet'.arg]_vars

\* C8's case: SetMachineID(MaxMachineID + 1) panicked after SetMachineID had
\* stored MaxMachineID, which is still the machine ID.
C8_Witness ==
    /\ lastSet = SetRecord("SetMachineID", MaxMachineID + 1, TRUE)
    /\ machineID = MaxMachineID

\* C9: SetStartTime(s) panics, leaving the start time as it was, exactly when s
\* is the zero time, or s is after the clock, or the clock (read again) is more
\* than MaxTimestamp after s; otherwise it stores s, and the elapsed time is
\* then within 0..MaxTimestamp.
C9_SetStartTime ==
    /\ [][(nconfig' # nconfig /\ lastSet'.op \in {"SetStartTime", "SetStartTime:running"}) =>
              /\ lastSet'.op = "SetStartTime" <=> (IsZero(lastSet'.arg) \/ lastSet'.arg > now)
              /\ lastSet'.op = "SetStartTime" <=> lastSet'.panic
              /\ startTime' = startTime]_vars
    /\ [][(cpc = "l101" /\ cpc' = "idle") =>
              /\ lastSet' = SetRecord("SetStartTime", cs, elapsedTime(now, cs) > MaxTimestamp)
              /\ startTime' = IF lastSet'.panic THEN startTime ELSE cs
              /\ ~lastSet'.panic => elapsedTime(now, startTime') \in 0..MaxTimestamp]_vars

\* C9's case: SetStartTime(s) stored s with the clock exactly MaxTimestamp after s.
C9_Witness ==
    /\ lastSet.op = "SetStartTime"
    /\ ~lastSet.panic
    /\ startTime = lastSet.arg
    /\ startTime # DefaultStartMillis
    /\ elapsedTime(now, startTime) = MaxTimestamp

\* C10: SetSequenceResolver(nil) leaves the resolver as it was and
\* SetSequenceResolver(r), r not nil, makes r the resolver; as long as no
\* resolver has been set, a call uses the default resolver.
C10_SetSequenceResolver ==
    /\ [](resolver = Nil => \A w \in Workers : pc[w] # "idle" => sr[w] = "AtomicResolver")
    /\ [][SetterCalled("SetSequenceResolver") =>
              resolver' = IF lastSet'.arg = Nil THEN resolver ELSE lastSet'.arg]_vars

\* C10's case: SetSequenceResolver(nil) was called after a custom resolver had
\* been set, which is still the resolver.
C10_Witness ==
    /\ lastSet = SetRecord("SetSequenceResolver", Nil, FALSE)
    /\ resolver = "custom"

\* C11: for every elapsed time in 0..MaxTimestamp, machine ID in 0..MaxMachineID
\* and sequence in 0..MaxSequence, ParseID of the assembled identifier returns
\* exactly these three fields, and the identifier itself.
C11_RoundTrip ==
    sid # NoSID =>
        sid = [ID |-> enc.id, Sequence |-> enc.seq, MachineID |-> enc.mid,
               Timestamp |-> enc.df]

\* C11's case: an identifier assembled from the largest value of each field has
\* been parsed.
C11_Witness ==
    /\ sid # NoSID
    /\ enc.df = MaxTimestamp
    /\ enc.mid = MaxMachineID
    /\ enc.seq = MaxSequence
    /\ sid.ID = enc.id

\* C12: on a fresh generator with machine ID 0 whose clock reads the start
\* time, the first NextID returns 0 and the second, at the same clock value,
\* returns 1; a call that follows once the clock has moved on by one returns an
\* identifier whose sequence is 0 and whose timestamp is one more than the
\* first's.
C12_FirstIdentifiers ==
    (Len(log) >= 1 /\ log[1].mid = 0 /\ log[1].c = log[1].start) =>
        /\ log[1].err = Nil /\ log[1].id = 0
        /\ (Len(log) >= 2 /\ log[2].c = log[1].c) =>
               /\ log[2].err = Nil /\ log[2].id = 1
               /\ (Len(log) >= 3 /\ log[3].c = log[1].c + 1) =>
                      /\ log[3].err = Nil
                      /\ ParseID(log[3].id).Sequence = 0
                      /\ ParseID(log[3].id).Timestamp =
                            ParseID(log[1].id).Timestamp + 1

\* C12's case: two calls at the start time and a third one tick later have
\* returned.
C12_Witness ==
    /\ Len(log) >= 3
    /\ log[1].mid = 0 /\ log[1].c = log[1].start
    /\ log[2].c = log[1].c
    /\ log[3].c = log[1].c + 1
    /\ log[3].err = Nil

\* C13: for every identifier NextID returned using clock value c, GenerateTime
\* of the parsed identifier is c while the start time is the one the
\* identifier was generated under, and after SetStartTime it is c moved by the
\* difference of the two start times.
C13_GenerateTime ==
    \A i \in Issued :
        /\ GenerateTime(ParseID(log[i].id)) = log[i].c + (startTime - log[i].start)
        /\ startTime = log[i].start => GenerateTime(ParseID(log[i].id)) = log[i].c

\* C13's case: identifiers have been issued under the current start time and
\* under an earlier, different one.
C13_Witness ==
    /\ \E i \in Issued : startTime # log[i].start /\ log[i].c > log[i].start
    /\ \E i \in Issued : startTime = log[i].start /\ log[i].c > log[i].start

\* C14: the first call of the default resolver on fresh state returns 0, and
\* consecutive calls with the same time unit return 0, 1, 2, ..., each one more
\* than the call before, up to the maximum, none repeated.
C14_SequencePerTimeUnit ==
    /\ Len(rlog) >= 1 => rlog[1].seq = 0
    /\ \A k \in 2..Len(rlog) :
           rlog[k].ms = rlog[k - 1].ms => rlog[k].seq = rlog[k - 1].seq + 1
    /\ \A i, j \in DOMAIN rlog :
           (i < j /\ \A k \in i..j : rlog[k].ms = rlog[i].ms) =>
               rlog[i].seq # rlog[j].seq

\* C14's case: consecutive calls with one time unit have counted from 0 up to
\* the maximum.
C14_Witness ==
    \E i \in DOMAIN rlog :
        /\ i + MaxSequence \in DOMAIN rlog
        /\ \A k \in 0..MaxSequence :
               rlog[i + k].ms = rlog[i].ms /\ rlog[i + k].seq = k

\* C15: whenever the default resolver is called with a time unit different
\* from the stored one, it stores the new time unit, resets the counter to 0 and
\* returns 0, whatever the counter was before.
C15_ResetOnNewTimeUnit ==
    /\ \A k \in DOMAIN rlog : rlog[k].ms # rlog[k].last => rlog[k].seq = 0
    /\ Len(rlog) >= 1 =>
           /\ lastTime = rlog[Len(rlog)].ms
           /\ lastSeq = rlog[Len(rlog)].seq

\* C15's case: the last call carried a new time unit when the counter had
\* reached the maximum.
C15_Witness ==
    /\ Len(rlog) >= 1
    /\ rlog[Len(rlog)].ms # rlog[Len(rlog)].last
    /\ rlog[Len(rlog)].cnt >= MaxSequence
    /\ lastSeq = 0

\* C16: no two calls of the default resolver with the same time unit receive
\* the same sequence, calls with an older time unit in between included.
C16_UniquePerTimeUnit ==
    \A i, j \in DOMAIN rlog :
        (i < j /\ rlog[i].ms = rlog[j].ms) => rlog[i].seq # rlog[j].seq

C19_StrictlyIncreasing ==
    \A i, j \in Issued : i < j => log[i].id < log[j].id

\* C19's case: identifiers issued within one time unit, and one issued after
\* them across a tick awaited during the call.
C19_Witness ==
    /\ \E i, j \in Issued : i < j /\ log[i].c = log[j].c
    /\ \E i, j \in Issued : i < j /\ log[j].exh = log[i].c /\ log[i].c < log[j].c

\* C20: NextID calls the resolver before the epoch check, so a call that failed
\* with the epoch error has left the default resolver at its own time unit and
\* sequence, and returning does not undo it; no step of NextID changes the
\* start time, the machine ID or the resolver in use.
C20_ResolverBeforeEpochCheck ==
    /\ [](( /\ pc[Caller] = "idle"
            /\ resolver = Nil
            /\ Len(log) >= 1
            /\ log[Len(log)].err = ErrEpoch ) =>
              /\ lastTime = log[Len(log)].c
              /\ lastSeq = log[Len(log)].seq)
    /\ [][(pc[Caller] = "l71" /\ pc'[Caller] = "idle") => UNCHANGED res]_vars
    /\ [][pc' # pc => UNCHANGED conf]_vars

\* C20's case: the last call failed the epoch check after the default resolver
\* had taken its time unit.
C20_Witness ==
    /\ pc[Caller] = "idle"
    /\ resolver = Nil
    /\ Len(log) >= 2
    /\ log[Len(log)].err = ErrEpoch
    /\ log[Len(log)].seq = 1
    /\ lastTime = log[Len(log)].c
    /\ lastSeq = 1

\* C17 as stated: every NextID call eventually returns, given that the clock
\* keeps advancing and every caller keeps being scheduled.
C17_EveryCallReturns ==
    \A w \in Workers : (pc[w] # "idle") ~> (pc[w] = "idle")

\* C17, amended: given that the clock keeps advancing and every caller keeps
\* being scheduled, every wait in waitForNextMillis ends, every resolver call
\* leads to the wait or to the epoch check, and the epoch check to the return;
\* a call returns unless another call is in progress with it.  (A call may find
\* each new time unit exhausted by other callers and wait again, without end.)
C17_EveryWaitEnds ==
    \A w \in Workers :
        /\ (pc[w] = "wait") ~> (pc[w] = "l65")
        /\ (pc[w] \in {"l57", "l65"}) ~> (pc[w] \in {"wait", "l71"})
        /\ (pc[w] = "l71") ~> (pc[w] = "idle")
        /\ (pc[w] # "idle") ~>
               (pc[w] = "idle" \/ \E v \in Workers \ {w} : pc[v] # "idle")

\* C17's case: a caller that waited for an exhausted time unit is about to
\* re-resolve for the new one, which other calls have exhausted meanwhile.
C17_Witness ==
    \E w \in Workers :
        /\ pc[w] = "l65"
        /\ hist[w].exh \notin {NoTime, c[w]}
        /\ lastTime = c[w]
        /\ lastSeq >= MaxSequence - 1

====
